---- MODULE Spec2Model ----
(***************************************************************************)
(* Model of minesweeper.py: the Minesweeper board (the oracle), the        *)
(* Sentence class and the MinesweeperAI knowledge engine.                  *)
(*                                                                         *)
(* A cell is the tuple <<i, j>> (row, column), rows and columns counted    *)
(* from 0 as in the source.  A Sentence object is the record               *)
(* [cells |-> set of cells, count |-> integer].  self.knowledge is a       *)
(* Python list, modelled as a sequence of such records (duplicates and     *)
(* order are kept).  Python's None is the empty tuple.                     *)
(***************************************************************************)
EXTENDS Integers, Sequences, FiniteSets, TLC

\* ---------------------------------------------------------------- bounds
\* Number of add_knowledge calls explored in a game driven by the board.
MaxCalls == 4
\* Number of add_knowledge calls explored when cell and count are arbitrary.
MaxCallsAny == 2

\* The (height, width) pairs given to the constructors.
Grids == {<<1, 3>>, <<1, 4>>, <<2, 3>>}

None == <<>>

VARIABLES
    height,        \* MinesweeperAI.height (= Minesweeper.height)
    width,         \* MinesweeperAI.width  (= Minesweeper.width)
    board,         \* Minesweeper.mines: the cells where board[i][j] is True
    moves_made,    \* MinesweeperAI.moves_made
    mines,         \* MinesweeperAI.mines
    safes,         \* MinesweeperAI.safes
    knowledge,     \* MinesweeperAI.knowledge
    op,            \* the method that ran last ("init" after construction)
    last_cell,     \* argument cell of the last add_knowledge call
    last_count,    \* argument count of the last add_knowledge call
    new_sentence,  \* the local new_sentence of the last add_knowledge call
    ret,           \* value returned by the last method
    raised,        \* TRUE iff the last method ended by raising an exception
    calls          \* number of add_knowledge calls so far

vars == <<height, width, board, moves_made, mines, safes, knowledge,
          op, last_cell, last_count, new_sentence, ret, raised, calls>>

engine == <<moves_made, mines, safes, knowledge>>

\* ------------------------------------------------------------ the board
\* All cells (i, j) with 0 <= i < h and 0 <= j < w.
Cells(h, w) == {<<i, j>> : i \in 0..(h - 1), j \in 0..(w - 1)}

\* Mutant of Around: the column range reaches one column too far.
Around_wide(cell) ==
    {<<i, j>> : i \in (cell[1] - 1)..(cell[1] + 1),
                j \in (cell[2] - 1)..(cell[2] + 2)} \ {cell}

\* range(cell[0]-1, cell[0]+2) x range(cell[1]-1, cell[1]+2) without the
\* cell itself.
Around(cell) ==
    {<<i, j>> : i \in (cell[1] - 1)..(cell[1] + 1),
                j \in (cell[2] - 1)..(cell[2] + 1)} \ {cell}

\* The largest count nearby_mines can return: every cell around is a mine.
MaxCount == Cardinality(Around(<<1, 1>>))

\* Minesweeper.is_mine
is_mine(b, cell) == cell \in b

\* Minesweeper.nearby_mines
nearby_mines(b, h, w, cell) ==
    Cardinality({c \in Around(cell) :
                    /\ 0 <= c[1] /\ c[1] < h /\ 0 <= c[2] /\ c[2] < w
                    /\ c \in b})

\* ------------------------------------------------------------- Sentence
Sentence(cells, count) == [cells |-> cells, count |-> count]

\* Mutant of known_mines: the test is >= instead of ==.
known_mines_atleast(s) == IF Cardinality(s.cells) >= s.count THEN s.cells ELSE {}

known_mines(s) == IF Cardinality(s.cells) = s.count THEN s.cells ELSE {}

known_safes(s) == IF s.count = 0 THEN s.cells ELSE {}

\* Mutant of Sentence_mark_mine: the count is left as it was.
Sentence_mark_mine_keepcount(s, cell) ==
    IF cell \in s.cells
    THEN [cells |-> s.cells \ {cell}, count |-> s.count]
    ELSE s

Sentence_mark_mine(s, cell) ==
    IF cell \in s.cells
    THEN [cells |-> s.cells \ {cell}, count |-> s.count - 1]
    ELSE s

\* Mutant of Sentence_mark_safe: the count is decremented as in mark_mine.
Sentence_mark_safe_decrement(s, cell) ==
    IF cell \in s.cells
    THEN [cells |-> s.cells \ {cell}, count |-> s.count - 1]
    ELSE s

Sentence_mark_safe(s, cell) ==
    IF cell \in s.cells
    THEN [cells |-> s.cells \ {cell}, count |-> s.count]
    ELSE s

\* -------------------------------------------------------- MinesweeperAI
\* The engine's fields as one record.
State(mm, mi, sa, kn) ==
    [moves_made |-> mm, mines |-> mi, safes |-> sa, knowledge |-> kn]

\* MinesweeperAI.__init__
NewAI == State({}, {}, {}, <<>>)

\* MinesweeperAI.mark_mine
mark_mine(st, cell) ==
    [st EXCEPT !.mines = @ \cup {cell},
               !.knowledge = [k \in 1..Len(@) |-> Sentence_mark_mine(@[k], cell)]]

\* Mutant of mark_safe: the sentences are not told about the cell.
mark_safe_set_only(st, cell) == [st EXCEPT !.safes = @ \cup {cell}]

\* MinesweeperAI.mark_safe
mark_safe(st, cell) ==
    [st EXCEPT !.safes = @ \cup {cell},
               !.knowledge = [k \in 1..Len(@) |-> Sentence_mark_safe(@[k], cell)]]

\* add_knowledge step 3: the cells the loop over range(cell[0]-1, cell[0]+2)
\* x range(cell[1]-1, cell[1]+2) lets through the elif of line 216.
Unclassified(st, h, w, cell) ==
    {c \in Around(cell) :
        /\ 0 <= c[1] /\ c[1] < h /\ 0 <= c[2] /\ c[2] < w
        /\ c \notin st.safes
        /\ c \notin st.moves_made}

\* add_knowledge's local list nearby_mines (each cell is met once).
known_nearby_mines(st, h, w, cell) ==
    {c \in Unclassified(st, h, w, cell) : c \in st.mines}

\* add_knowledge's local set neighbors.
neighbors(st, h, w, cell) ==
    {c \in Unclassified(st, h, w, cell) : c \notin st.mines}

\* Mutant of NewSentence: the known mines nearby are not subtracted.
NewSentence_unreduced(st, h, w, cell, count) ==
    Sentence(neighbors(st, h, w, cell), count)

\* Sentence(cells = neighbors, count = count - len(nearby_mines))
NewSentence(st, h, w, cell, count) ==
    Sentence(neighbors(st, h, w, cell),
             count - Cardinality(known_nearby_mines(st, h, w, cell)))

\* add_knowledge step 4: the local sets mines and safes collected from
\* known_mines() and known_safes() of every sentence of the list.
direct_mines(know) == UNION {known_mines(know[k]) : k \in 1..Len(know)}

direct_safes(know) == UNION {known_safes(know[k]) : k \in 1..Len(know)}

\* Mutant of Derived: the counts are subtracted the wrong way round.
Derived_swapped(old, new) ==
    IF new.cells # {} /\ old.cells # new.cells
    THEN (IF old.cells \subseteq new.cells
          THEN <<Sentence(new.cells \ old.cells, old.count - new.count)>>
          ELSE <<>>)
         \o
         (IF new.cells \subseteq old.cells
          THEN <<Sentence(old.cells \ new.cells, new.count - old.count)>>
          ELSE <<>>)
    ELSE <<>>

\* The sentence add_knowledge derives from old_sentence and new_sentence
\* (lines 257-265), as the list of what the two ifs append to to_add.
Derived(old, new) ==
    IF new.cells # {} /\ old.cells # new.cells
    THEN (IF old.cells \subseteq new.cells
          THEN <<Sentence(new.cells \ old.cells, new.count - old.count)>>
          ELSE <<>>)
         \o
         (IF new.cells \subseteq old.cells
          THEN <<Sentence(old.cells \ new.cells, old.count - new.count)>>
          ELSE <<>>)
    ELSE <<>>

\* add_knowledge step 5: the list to_add, built in the order of knowledge.
RECURSIVE to_add(_, _, _)
to_add(know, new, k) ==
    IF k > Len(know) THEN <<>>
    ELSE Derived(know[k], new) \o to_add(know, new, k + 1)

\* list.remove(x): the list without its first element equal to x.
RECURSIVE ListRemove(_, _)
ListRemove(list, x) ==
    IF list = <<>> THEN <<>>
    ELSE IF Head(list) = x THEN Tail(list)
         ELSE <<Head(list)>> \o ListRemove(Tail(list), x)

\* The tests of the three removal loops.
Useless(kind, s) ==
    CASE kind = "no_cells" -> Cardinality(s.cells) = 0
      [] kind = "no_mines" -> s.count = 0
      [] kind = "all_mines" -> Cardinality(s.cells) = s.count

\* Mutant of RemoveLoop: the loop goes over the list itself, not a copy, so
\* the element after a removed one is skipped.
RECURSIVE RemoveLoop_nocopy(_, _, _, _)
RemoveLoop_nocopy(kind, copy, list, k) ==
    IF k > Len(list) THEN [list |-> list, error |-> FALSE]
    ELSE IF Useless(kind, list[k])
         THEN RemoveLoop_nocopy(kind, copy, ListRemove(list, list[k]), k + 1)
         ELSE RemoveLoop_nocopy(kind, copy, list, k + 1)

\* One removal loop: for sentence in self.knowledge.copy(): if the test
\* holds, self.knowledge.remove(sentence).  list.remove raises ValueError
\* when no element equals sentence; the loop then stops there.
RECURSIVE RemoveLoop(_, _, _, _)
RemoveLoop(kind, copy, list, k) ==
    IF k > Len(copy) THEN [list |-> list, error |-> FALSE]
    ELSE IF Useless(kind, copy[k])
         THEN IF \E n \in 1..Len(list) : list[n] = copy[k]
              THEN RemoveLoop(kind, copy, ListRemove(list, copy[k]), k + 1)
              ELSE [list |-> list, error |-> TRUE]
         ELSE RemoveLoop(kind, copy, list, k + 1)

\* add_knowledge step 6: the three loops in order; an exception ends the call.
Simplify(know) ==
    LET r1 == RemoveLoop("no_cells", know, know, 1)
        r2 == RemoveLoop("no_mines", r1.list, r1.list, 1)
        r3 == RemoveLoop("all_mines", r2.list, r2.list, 1)
    IN  IF r1.error THEN r1
        ELSE IF r2.error THEN r2
        ELSE r3

\* MinesweeperAI.add_knowledge before step 6 (lines 196-269): the engine
\* with the list as step 5 leaves it, the sentence built in step 3 and the
\* list that the loop of step 5 went over.
inferred(st, h, w, cell, count) ==
    LET s1 == [st EXCEPT !.moves_made = @ \cup {cell}]
        s2 == mark_safe(s1, cell)
        new == NewSentence(s2, h, w, cell, count)
        k3 == Append(s2.knowledge, new)
        mines4 == s2.mines \cup direct_mines(k3)
        safes4 == s2.safes \cup direct_safes(k3)
        k5 == k3 \o to_add(k3, new, 1)
    IN  [st |-> State(s1.moves_made, mines4, safes4, k5),
         new_sentence |-> new,
         scanned |-> k3]

\* MinesweeperAI.add_knowledge: the engine after the call, the sentence it
\* built and whether it raised.
add_knowledge(st, h, w, cell, count) ==
    LET p == inferred(st, h, w, cell, count)
        r6 == Simplify(p.st.knowledge)
    IN  [st |-> [p.st EXCEPT !.knowledge = r6.list],
         new_sentence |-> p.new_sentence,
         raised |-> r6.error]

\* Mutant of legal: the moves already made are not left out.
legal_unfiltered(st) == st.safes

\* make_safe_move's local list legal: the cells of safes not in moves_made.
\* The list is filled in the iteration order of a Python set, which the
\* language leaves open, so its first element may be any of them.
legal(st) == {c \in st.safes : c \notin st.moves_made}

\* make_random_move's list possible as first built: every (i, j), row by row.
all_moves(h, w) ==
    [n \in 1..(h * w) |-> <<(n - 1) \div w, (n - 1) % w>>]

\* Mutant of Excluded: known mines are not removed.
Excluded_moves_only(st, c) == c \in st.moves_made

\* A move make_random_move's second loop removes from possible.
Excluded(st, c) == c \in st.mines \/ c \in st.moves_made

\* make_random_move's list possible after the removals.
possible(st, h, w) ==
    SelectSeq(all_moves(h, w), LAMBDA c : ~Excluded(st, c))

\* ----------------------------------------------------------- the machine
Engine == State(moves_made, mines, safes, knowledge)

NoSentence == Sentence({}, 0)

InitEngine ==
    /\ moves_made = NewAI.moves_made
    /\ mines = NewAI.mines
    /\ safes = NewAI.safes
    /\ knowledge = NewAI.knowledge
    /\ op = "init"
    /\ last_cell = None
    /\ last_count = 0
    /\ new_sentence = NoSentence
    /\ ret = None
    /\ raised = FALSE
    /\ calls = 0

\* A game: Minesweeper(height, width, mines) with its mines anywhere, and
\* MinesweeperAI(height, width).
Init ==
    /\ \E g \in Grids : height = g[1] /\ width = g[2]
    /\ board \in SUBSET Cells(height, width)
    /\ InitEngine

\* An engine alone, its caller reporting what it likes.
InitAny ==
    /\ \E g \in Grids : height = g[1] /\ width = g[2]
    /\ board = {}
    /\ InitEngine

\* The effect of ai.add_knowledge(cell, count) on the variables.
Call_add_knowledge(cell, count) ==
    LET r == add_knowledge(Engine, height, width, cell, count)
    IN  /\ moves_made' = r.st.moves_made
        /\ mines' = r.st.mines
        /\ safes' = r.st.safes
        /\ knowledge' = r.st.knowledge
        /\ op' = "add_knowledge"
        /\ last_cell' = cell
        /\ last_count' = count
        /\ new_sentence' = r.new_sentence
        /\ ret' = None
        /\ raised' = r.raised
        /\ calls' = calls + 1
        /\ UNCHANGED <<height, width, board>>

\* A turn of the game: a cell that is no mine is revealed and the board's
\* count of its neighbouring mines is given to the engine.
AddKnowledge ==
    /\ calls < MaxCalls
    /\ \E cell \in Cells(height, width) :
          /\ ~is_mine(board, cell)
          /\ Call_add_knowledge(cell, nearby_mines(board, height, width, cell))

\* add_knowledge with any in-bounds cell and any count in 0..8.
AddKnowledgeAny ==
    /\ calls < MaxCallsAny
    /\ \E cell \in Cells(height, width), count \in 0..MaxCount :
          Call_add_knowledge(cell, count)

\* Mutant of MakeSafeMove: the returned cell is recorded as a move made.
MakeSafeMove_recording ==
    /\ op' = "make_safe_move"
    /\ IF legal(Engine) = {}
       THEN ret' = None /\ moves_made' = moves_made
       ELSE \E c \in legal(Engine) : ret' = c /\ moves_made' = moves_made \cup {c}
    /\ raised' = FALSE
    /\ UNCHANGED <<height, width, board, mines, safes, knowledge,
                   last_cell, last_count, new_sentence, calls>>

\* MinesweeperAI.make_safe_move
MakeSafeMove ==
    /\ op' = "make_safe_move"
    /\ IF legal(Engine) = {}
       THEN ret' = None
       ELSE \E c \in legal(Engine) : ret' = c
    /\ raised' = FALSE
    /\ UNCHANGED <<height, width, board, moves_made, mines, safes, knowledge,
                   last_cell, last_count, new_sentence, calls>>

\* MinesweeperAI.make_random_move: random.randrange(len(possible)) is any
\* index of possible, and raises on an empty list, which the except turns
\* into None.
MakeRandomMove ==
    /\ op' = "make_random_move"
    /\ LET p == possible(Engine, height, width)
       IN  IF Len(p) = 0
           THEN ret' = None
           ELSE \E n \in 1..Len(p) : ret' = p[n]
    /\ raised' = FALSE
    /\ UNCHANGED <<height, width, board, moves_made, mines, safes, knowledge,
                   last_cell, last_count, new_sentence, calls>>

Next == AddKnowledge \/ MakeSafeMove \/ MakeRandomMove

Spec == Init /\ [][Next]_vars

NextAny == AddKnowledgeAny \/ MakeSafeMove \/ MakeRandomMove

SpecAny == InitAny /\ [][NextAny]_vars

\* ------------------------------------------------- one Sentence object
\* A Sentence object alone, kept as the only element of knowledge, and calls
\* of its four methods.  Its cells are any cells of the grid and its count
\* any number from 0 to the number of cells of the grid.
InitSentence ==
    /\ \E g \in Grids : height = g[1] /\ width = g[2]
    /\ board = {}
    /\ moves_made = {} /\ mines = {} /\ safes = {}
    /\ \E cs \in SUBSET Cells(height, width), n \in 0..(height * width) :
          knowledge = <<Sentence(cs, n)>>
    /\ op = "init"
    /\ last_cell = None
    /\ last_count = 0
    /\ new_sentence = NoSentence
    /\ ret = {}
    /\ raised = FALSE
    /\ calls = 0

\* s.known_mines()
KnownMines ==
    /\ op' = "known_mines"
    /\ ret' = known_mines(knowledge[1])
    /\ UNCHANGED <<height, width, board, moves_made, mines, safes, knowledge,
                   last_cell, last_count, new_sentence, raised, calls>>

\* s.known_safes()
KnownSafes ==
    /\ op' = "known_safes"
    /\ ret' = known_safes(knowledge[1])
    /\ UNCHANGED <<height, width, board, moves_made, mines, safes, knowledge,
                   last_cell, last_count, new_sentence, raised, calls>>

\* s.mark_mine(cell)
MarkMine ==
    \E cell \in Cells(height, width) :
        /\ op' = "mark_mine"
        /\ last_cell' = cell
        /\ knowledge' = <<Sentence_mark_mine(knowledge[1], cell)>>
        /\ ret' = {}
        /\ UNCHANGED <<height, width, board, moves_made, mines, safes,
                       last_count, new_sentence, raised, calls>>

\* s.mark_safe(cell)
MarkSafe ==
    \E cell \in Cells(height, width) :
        /\ op' = "mark_safe"
        /\ last_cell' = cell
        /\ knowledge' = <<Sentence_mark_safe(knowledge[1], cell)>>
        /\ ret' = {}
        /\ UNCHANGED <<height, width, board, moves_made, mines, safes,
                       last_count, new_sentence, raised, calls>>

NextSentence == KnownMines \/ KnownSafes \/ MarkMine \/ MarkSafe

SpecSentence == InitSentence /\ [][NextSentence]_vars

\* ------------------------------------------------------ the subset loop
\* The number of mines of b among cells.
MinesAmong(b, cells) == Cardinality({c \in cells : is_mine(b, c)})

\* Two sentences that are true of a board, any cell sets of the grid, as the
\* list [old_sentence, new_sentence] the loop of step 5 goes over.
InitDerive ==
    /\ \E g \in Grids : height = g[1] /\ width = g[2]
    /\ board \in SUBSET Cells(height, width)
    /\ moves_made = {} /\ mines = {} /\ safes = {}
    /\ \E a, b \in SUBSET Cells(height, width) :
          /\ knowledge = <<Sentence(a, MinesAmong(board, a)),
                           Sentence(b, MinesAmong(board, b))>>
          /\ new_sentence = Sentence(b, MinesAmong(board, b))
    /\ op = "init"
    /\ last_cell = None
    /\ last_count = 0
    /\ ret = None
    /\ raised = FALSE
    /\ calls = 0

\* Step 5 of add_knowledge (lines 251-269) on that list.
Derive ==
    /\ op = "init"
    /\ op' = "derive"
    /\ knowledge' = knowledge \o to_add(knowledge, new_sentence, 1)
    /\ UNCHANGED <<height, width, board, moves_made, mines, safes,
                   last_cell, last_count, new_sentence, ret, raised, calls>>

NextDerive == Derive

SpecDerive == InitDerive /\ [][NextDerive]_vars

(***************************************************************************)
(* A game played by a driver loop.  Each turn the driver asks              *)
(* make_safe_move(), asks make_random_move() when that returned None,      *)
(* reveals the chosen cell on the board and, when it is no mine, gives it  *)
(* with the board's count to add_knowledge.  The position in the loop is   *)
(* read from op and ret.                                                   *)
(***************************************************************************)
Queries == {"make_safe_move", "make_random_move"}

\* The driver holds a cell it has chosen and not yet revealed.
Chosen == op \in Queries /\ ret # None

\* The loop is over: both queries returned None, or the chosen cell is a
\* mine.
Stopped ==
    \/ op = "make_random_move" /\ ret = None
    \/ Chosen /\ is_mine(board, ret)

\* move = ai.make_safe_move(), at the top of a turn.
GameSafe ==
    /\ op \in {"init", "add_knowledge"}
    /\ MakeSafeMove

\* if move is None: move = ai.make_random_move()
GameRandom ==
    /\ op = "make_safe_move"
    /\ ret = None
    /\ MakeRandomMove

\* The chosen cell is no mine: ai.add_knowledge(move, nearby_mines(move)).
GameFeed ==
    /\ Chosen
    /\ ~is_mine(board, ret)
    /\ Call_add_knowledge(ret, nearby_mines(board, height, width, ret))

NextGame == GameSafe \/ GameRandom \/ GameFeed

\* The loop is sequential code: a turn that can go on does go on.  This is
\* weak fairness of NextGame, written with what enables a step of the loop:
\* one of the three steps can be taken, and changes op or calls, exactly
\* when the loop has not stopped.
SpecGame ==
    /\ Init
    /\ [][NextGame]_vars
    /\ ([]<>Stopped \/ []<><<NextGame>>_vars)

\* ------------------------------------------------------------ properties
InBounds(c) == 0 <= c[1] /\ c[1] < height /\ 0 <= c[2] /\ c[2] < width

Live == {knowledge[k] : k \in 1..Len(knowledge)}

\* C1: soundness.  In a game where every add_knowledge call reports a cell
\* that is no mine together with the board's true count, every cell of
\* mines is a mine of the board and no cell of safes is.
C1_Soundness ==
    /\ \A c \in mines : is_mine(board, c)
    /\ \A c \in safes : ~is_mine(board, c)

\* C1 witness: after some calls the engine has concluded a mine and a safe
\* cell that was never revealed.
C1_Witness ==
    /\ calls >= 2
    /\ mines # {}
    /\ safes \ moves_made # {}

\* C2: after any sequence of add_knowledge calls (any in-bounds cell, any
\* count in 0..8) no cell is both in mines and in safes.
C2_NoDoubleClassification == mines \cap safes = {}

\* C3: between calls no live sentence contains a cell of mines or safes.
C3_SentencesReconciled ==
    \A s \in Live : s.cells \cap (mines \cup safes) = {}

\* The sentence the subset rule yields from a and b when a.cells is a strict
\* subset of b.cells.
SubsetRule(a, b) == Sentence(b.cells \ a.cells, b.count - a.count)

\* The cells the inference rules conclude from the live sentences: the
\* known mines and known safes of each, and of each sentence the subset rule
\* yields from two of them.
Concluded ==
    LET pairs == {p \in Live \X Live :
                    p[1].cells \subseteq p[2].cells /\ p[1].cells # p[2].cells}
        rule == {SubsetRule(p[1], p[2]) : p \in pairs}
    IN  UNION {known_mines(s) \cup known_safes(s) : s \in Live \cup rule}

\* C4: when add_knowledge has returned the knowledge base is closed under
\* the inference rules: they conclude no cell outside mines and safes.
C4_FixedPoint == Concluded \subseteq mines \cup safes

\* C5: make_safe_move returns a cell of safes that is not in moves_made when
\* there is one, None exactly when there is none, and never a cell of
\* moves_made.
C5_SafeMove ==
    op = "make_safe_move" =>
        /\ ret = None <=> safes \ moves_made = {}
        /\ ret # None => ret \in safes \ moves_made
        /\ ret \notin moves_made

\* C5 witness: make_safe_move has returned a cell while some safe cells were
\* already played.
C5_Witness ==
    /\ op = "make_safe_move"
    /\ ret # None
    /\ safes \cap moves_made # {}

\* The cells make_random_move may choose from.
Free == {c \in Cells(height, width) : c \notin mines \cup moves_made}

\* C6: make_random_move returns an in-bounds cell that is neither in mines
\* nor in moves_made, each such cell can be returned, and None is returned
\* exactly when there is no such cell.
C6_RandomMove ==
    /\ op = "make_random_move" =>
          /\ ret = None <=> Free = {}
          /\ ret # None => InBounds(ret) /\ ret \in Free
    /\ \A c \in Free : ENABLED (MakeRandomMove /\ ret' = c)

\* C6 witness: make_random_move has returned a cell while a mine was known
\* and a move was made.
C6_Witness ==
    /\ op = "make_random_move"
    /\ ret # None
    /\ mines # {}
    /\ moves_made # {}

\* C7: a step of make_safe_move or make_random_move leaves moves_made, mines,
\* safes and knowledge as they were.
C7_PureQueries ==
    [][op' \in {"make_safe_move", "make_random_move"} => UNCHANGED engine]_vars

\* C7 witness: a query has returned on an engine that holds sentences, safes
\* and mines.
C7_Witness ==
    /\ op \in {"make_safe_move", "make_random_move"}
    /\ knowledge # <<>>
    /\ mines # {}
    /\ safes # moves_made

\* A sentence whose count is impossible for its cells.
Invalid(s) == s.count < 0 \/ s.count > Cardinality(s.cells)

\* C8: a call whose new sentence has a negative count or a count above the
\* size of its cell set ends in a failure, and knowledge never holds such a
\* sentence.
C8_InvalidReportRejected ==
    /\ op = "add_knowledge" /\ Invalid(new_sentence) => raised
    /\ \A s \in Live : ~Invalid(s)

\* The state after the single call add_knowledge((0,0), 0) on a fresh 1x3
\* engine.
Scenario1x3 ==
    /\ height = 1 /\ width = 3
    /\ calls = 1
    /\ op = "add_knowledge"
    /\ last_cell = <<0, 0>>
    /\ last_count = 0

\* C9 as stated: the call leaves (0,1) and (0,2) in safes and mines empty.
C9_Scenario_Original ==
    Scenario1x3 => <<0, 1>> \in safes /\ <<0, 2>> \in safes /\ mines = {}

\* C9 amended: the call leaves (0,0) and (0,1) in safes, (0,2) outside safes
\* and mines empty.
C9_Scenario ==
    Scenario1x3 => safes = {<<0, 0>>, <<0, 1>>} /\ mines = {}

\* C9 witness: the scenario has run.
C9_Witness == Scenario1x3 /\ <<0, 1>> \in safes

\* C10: in a game driven by the board every live sentence has
\* 0 <= count <= |cells|.
C10_CountWithinBounds ==
    \A s \in Live : 0 <= s.count /\ s.count <= Cardinality(s.cells)

\* C10 witness: knowledge holds two sentences, one's cells a strict subset
\* of the other's, and the sentence the subset rule yields from them.
C10_Witness ==
    \E a, b \in Live :
        /\ a.cells \subseteq b.cells /\ a.cells # b.cells
        /\ SubsetRule(a, b) \in Live

\* C11: known_mines() returns the whole cell set when count = |cells| and
\* the empty set otherwise, known_safes() the whole cell set when count = 0
\* and the empty set otherwise; neither returns a proper nonempty subset.
C11_KnownCells ==
    LET s == knowledge[1]
    IN  /\ op = "known_mines" =>
              ret = (IF s.count = Cardinality(s.cells) THEN s.cells ELSE {})
        /\ op = "known_safes" =>
              ret = (IF s.count = 0 THEN s.cells ELSE {})
        /\ op \in {"known_mines", "known_safes"} => ret = {} \/ ret = s.cells

\* C11 witness: known_mines() has returned a cell set of two or more cells.
C11_Witness ==
    /\ op = "known_mines"
    /\ Cardinality(ret) >= 2
    /\ knowledge[1].count = Cardinality(ret)

\* C12: mark_mine(cell) on a member removes that cell and takes one from
\* count, mark_safe(cell) on a member removes that cell and keeps count,
\* both change nothing when the cell is absent, and a call repeated with the
\* same cell changes nothing.
C12_Narrowing ==
    [][LET s == knowledge[1]
           t == knowledge'[1]
           c == last_cell'
       IN  /\ op' = "mark_mine" =>
                 IF c \in s.cells
                 THEN t.cells = s.cells \ {c} /\ t.count = s.count - 1
                 ELSE t = s
           /\ op' = "mark_safe" =>
                 IF c \in s.cells
                 THEN t.cells = s.cells \ {c} /\ t.count = s.count
                 ELSE t = s
           /\ op' \in {"mark_mine", "mark_safe"} /\ op' = op /\ c = last_cell
                 => t = s]_vars

\* C12 witness: mark_safe((0,1)) has turned {(0,1),(0,2)} = 2 into
\* {(0,2)} = 2, a count above the number of cells.
C12_Witness ==
    /\ op = "mark_safe"
    /\ last_cell = <<0, 1>>
    /\ knowledge[1] = Sentence({<<0, 2>>}, 2)

\* C13: a call that leaves a cell both in mines and in safes ends in a
\* fatal error.
C13_ConflictIsFatal ==
    op = "add_knowledge" /\ mines \cap safes # {} => raised

\* The list of the last add_knowledge call before its removal loops, seen
\* from a step of that call.
BeforeRemoval ==
    inferred(Engine, height, width, last_cell', last_count').st.knowledge

\* The list the subset loop of the last add_knowledge call went over.
Scanned ==
    inferred(Engine, height, width, last_cell', last_count').scanned

Range(list) == {list[k] : k \in 1..Len(list)}

\* C14: every sentence that an add_knowledge call removes because its count
\* is 0 has all its cells in safes when the call returns, and every sentence
\* it removes because |cells| = count has all its cells in mines.
C14_DroppedContributed ==
    [][op' = "add_knowledge" =>
          \A s \in Range(BeforeRemoval) :
              /\ s.count = 0 => s.cells \subseteq safes'
              /\ Cardinality(s.cells) = s.count => s.cells \subseteq mines']_vars

\* C15: in each add_knowledge call, for every two distinct sentences a, b of
\* the list with a.cells a strict subset of b.cells, the sentence
\* (b.cells - a.cells, b.count - a.count) is added to the list.
C15_AllPairs ==
    [][op' = "add_knowledge" =>
          \A i, j \in 1..Len(Scanned) :
              (/\ i # j
               /\ Scanned[i].cells \subseteq Scanned[j].cells
               /\ Scanned[i].cells # Scanned[j].cells)
              => SubsetRule(Scanned[i], Scanned[j]) \in Range(BeforeRemoval)]_vars

\* The in-bounds cells next to c.
Adjacent(c) ==
    {x \in Cells(height, width) :
        /\ x # c
        /\ x[1] - c[1] \in {-1, 0, 1}
        /\ x[2] - c[2] \in {-1, 0, 1}}

TrueOf(s, b) == MinesAmong(b, s.cells) = s.count

\* C17: for sentences a and b that are true of an assignment of mines, with
\* a.cells a strict subset of b.cells, the sentence that step 5 of
\* add_knowledge derives is (b.cells - a.cells, b.count - a.count), is true
\* of that assignment and has 0 <= count <= |cells|.
C17_SubsetSound ==
    op = "derive" =>
        /\ \A k \in 3..Len(knowledge) :
              /\ TrueOf(knowledge[k], board)
              /\ 0 <= knowledge[k].count
              /\ knowledge[k].count <= Cardinality(knowledge[k].cells)
        /\ \A i, j \in 1..2 :
              (/\ knowledge[i].cells \subseteq knowledge[j].cells
               /\ knowledge[i].cells # knowledge[j].cells
               /\ new_sentence.cells # {})
              => /\ Len(knowledge) = 3
                 /\ knowledge[3] = SubsetRule(knowledge[i], knowledge[j])

\* C17 witness: a sentence with a mine and a cell that is none has been
\* derived from a sentence that holds a mine too.
C17_Witness ==
    /\ op = "derive"
    /\ Len(knowledge) = 3
    /\ knowledge[3].count = 1
    /\ Cardinality(knowledge[3].cells) = 2
    /\ knowledge[1].count >= 1

\* C18: once add_knowledge(cell, count) has returned, cell is in moves_made
\* and in safes and in the cells of no live sentence; every move made is in
\* safes.
C18_CellRecorded ==
    /\ last_cell # None =>
          /\ last_cell \in moves_made
          /\ last_cell \in safes
          /\ \A s \in Live : last_cell \notin s.cells
    /\ moves_made \subseteq safes

\* C18 witness: the cell of the last call is next to an earlier move, and a
\* sentence about the cells around that move is still live.
C18_Witness ==
    /\ op = "add_knowledge"
    /\ \E m \in moves_made \ {last_cell} :
          /\ last_cell \in Adjacent(m)
          /\ \E s \in Live : s.cells # {} /\ s.cells \subseteq Adjacent(m)

\* C19: when add_knowledge has returned, whatever its inputs, every sentence
\* of knowledge has cells, a count other than 0 and a count other than the
\* number of its cells, and no removal has failed.
C19_Undetermined ==
    /\ \A s \in Live :
          /\ s.cells # {}
          /\ s.count # 0
          /\ s.count # Cardinality(s.cells)
    /\ ~raised

\* C19 witness: on the 2x3 grid add_knowledge((0,0), 2) then
\* add_knowledge((1,0), 2); the second call holds {(0,1),(1,1)} = 2 twice,
\* the narrowed old sentence and the new one, and removes both.
C19_Witness ==
    /\ height = 2 /\ width = 3
    /\ calls = 2
    /\ op = "add_knowledge"
    /\ moves_made = {<<0, 0>>, <<1, 0>>}
    /\ last_cell = <<1, 0>>
    /\ new_sentence = Sentence({<<0, 1>>, <<1, 1>>}, 2)
    /\ mines = {<<0, 1>>, <<1, 1>>}
    /\ knowledge = <<>>

\* The cells the driver has chosen so far: those given to add_knowledge, and
\* the one it holds.
Turns == calls + (IF Chosen THEN 1 ELSE 0)

\* C20: in a game loop (make_safe_move, else make_random_move, the chosen
\* non-mine cell given to add_knowledge with its true count) no cell is
\* chosen twice: a chosen cell is never a move already made, and every
\* add_knowledge adds exactly its cell to moves_made, so that moves_made
\* counts the turns played; there are at most height*width turns; and the
\* loop eventually stops, on a mine or on both queries returning None.
C20_GameLoop ==
    /\ [](/\ Chosen => ret \notin moves_made
          /\ Cardinality(moves_made) = calls
          /\ Turns <= height * width)
    /\ [][GameFeed => /\ ret \notin moves_made
                      /\ moves_made' = moves_made \cup {ret}]_vars
    /\ <>Stopped

\* A game of three turns or more that ends with both queries returning None
\* on a board with a mine, a random move having been needed on the way.
C20_Witness ==
    /\ op = "make_random_move"
    /\ ret = None
    /\ calls >= 3
    /\ board # {}
    /\ Cardinality(moves_made) + Cardinality(mines) = height * width

====
